---------------------------- MODULE Spec2Model ----------------------------
(***************************************************************************)
(* Kinematic stepper (Navigation + Drone) and trail data managers (the     *)
(* three trail.js variants) of maplibre-threejs-3d-map.                    *)
(*                                                                         *)
(* Units.  Longitude and latitude are integers counted in 1/111000000 of a *)
(* degree.  The stepper converts degrees to metres with the factor 111000, *)
(* so one unit is one millimetre on the ground: 0.000009 degrees is 999    *)
(* units, 0.00001 degrees is 1110 units, and one metre is 1000 units.      *)
(* The stepper's distances in metres (totalDist, stepMeters) are counted in *)
(* these units too.                                                         *)
(* Altitudes are integers counted in decimetres (0.5 m is 5).  Segment     *)
(* widths are counted in thousandths of a render unit.  Only inputs on     *)
(* which every operation of the code is exact on this grid are enumerated  *)
(* (ExactManeuver); IEEE-754 rounding is outside the model.                *)
(***************************************************************************)
EXTENDS Integers, Sequences, FiniteSets, TLC

VARIABLES
    \* Drone (src/web/js/drone.js)
    longitude, latitude, altitude, vertical_speed, move_frequency,
    move_interval, rtcGroup, rtcPosition, rotation_y,
    \* the event loop's interval timers and the closures they run
    timers, loops, nextTimer,
    \* markers module (src/unnamed/part_002)
    targetMarker,
    \* trail modules
    trailVariant, mapInstance, isTrailVisible,
    trailPoints, mapSource,
    droneTrails, mapLayers, deckLayers,
    \* the caller of the trail module: the array the last getPathSegments or
    \* getTrailPoints call returned, and whether the last call threw
    returned, threw,
    \* history of the run, read by the properties only
    log, accepted, lastOp, run

droneVars == <<longitude, latitude, altitude, vertical_speed, move_frequency,
               move_interval, rtcGroup, rtcPosition, rotation_y>>
loopVars  == <<timers, loops, nextTimer>>
trailVars == <<trailVariant, mapInstance, isTrailVisible, trailPoints, mapSource,
               droneTrails, mapLayers, deckLayers>>
callerVars == <<returned, threw>>
histVars  == <<log, accepted, lastOp>>
vars == <<droneVars, loopVars, targetMarker, trailVars, callerVars, histVars, run>>

-----------------------------------------------------------------------------
(* Bounds of the exploration *)

\* number of moveDroneToward calls explored in one run
MaxManeuvers == 2
\* accepted appends during which the offered inputs vary freely
MaxRich == 2
\* accepted appends explored beyond the larger cap
MaxBeyondCap == 3
\* segments accepted into one trail of the registry
MaxRegistered == 1
\* segments accepted into one styled trail
MaxStyled == 2

(* Program constants *)

\* trail.js:144, part_000:61  0.000009 degrees
MinDistance == 999
\* trail.js:310  0.00001 degrees
FirstSegmentOffset == 1110
\* part_000:66
MaxTrailPoints == 200
\* trail.js:162, part_001:107
MaxPathSegments == 300
\* threejs-layer.js:300  111000 metres per degree, in units per metre
UnitsPerMeter == 1000
\* threejs-layer.js:319  0.5 m
AltSnap == 5
\* drone.js:10
DefaultVerticalSpeed == 2
\* drone.js:11
DefaultMoveFrequency == 1
\* drone.js:6
DefaultAltitude == 1000

Null == -1000000
NoTimer == 0
\* the one non-finite number of the model, off the grid: every sum, product,
\* quotient and square root with a NaN operand is NaN, and every comparison
\* with NaN is false
NaN == 2 * Null
DefaultDroneId == "default-drone"
\* a second drone, whose trail is made and fed through the trailManager
OtherDroneId == "drone-2"
TrailIds == {DefaultDroneId, OtherDroneId}

Abs(x) == IF x < 0 THEN -x ELSE x
Min(a, b) == IF a < b THEN a ELSE b
Max(a, b) == IF a > b THEN a ELSE b

\* bisection; the midpoint is drawn from a one-element set, which fixes its
\* value before the search goes on
RECURSIVE SqrtSearch(_, _, _)
SqrtSearch(x, lo, hi) ==
    IF lo >= hi THEN lo
    ELSE CHOOSE r \in {IF mid * mid <= x THEN SqrtSearch(x, mid, hi)
                       ELSE SqrtSearch(x, lo, mid - 1) :
                           mid \in {(lo + hi + 1) \div 2}} : TRUE

\* Math.sqrt on the grid (exact on the perfect squares the model feeds it)
Sqrt(x) == SqrtSearch(x, 0, 46340)


EmptyMap == [x \in {} |-> <<>>]
Put(f, k, v) == [x \in DOMAIN f \cup {k} |-> IF x = k THEN v ELSE f[x]]
Remove(f, k) == [x \in DOMAIN f \ {k} |-> f[x]]
Last(s) == s[Len(s)]

-----------------------------------------------------------------------------
(* Trail stores: pure parts *)

\* calculateDistance, squared: Math.sqrt is monotone, so the code's comparisons
\* of the distance with 0.000009 are made on the squares, exactly.
calculateDistanceSq(pos1, pos2) ==
    LET dx == pos2[1] - pos1[1]
        dy == pos2[2] - pos1[2]
    IN  IF NaN \in {pos1[1], pos1[2], pos2[1], pos2[2]} THEN NaN
        ELSE dx * dx + dy * dy

\* a filter that lets a point exactly at the threshold through
SignificantOrEqual(distSq) == distSq >= MinDistance * MinDistance

\* a filter whose threshold lost a digit
TooCloseTenth(distSq) == distSq * 100 < MinDistance * MinDistance

\* part_000:61  distance > 0.000009
Significant(distSq) ==
    IF distSq = NaN THEN FALSE ELSE distSq > MinDistance * MinDistance

\* trail.js:144, part_001:94  distance < 0.000009
TooClose(distSq) ==
    IF distSq = NaN THEN FALSE ELSE distSq < MinDistance * MinDistance

\* a push that never evicts
PushUnbounded(store, entry, cap) == Append(store, entry)

\* a push that drops the newest entry, not the oldest, on overflow
PushDropNewest(store, entry, cap) ==
    IF Len(store) >= cap THEN store ELSE Append(store, entry)

\* push, then shift when the length exceeds the cap
PushBounded(store, entry, cap) ==
    LET pushed == Append(store, entry)
    IN  IF Len(pushed) > cap THEN Tail(pushed) ELSE pushed

\* brackets that keep a boundary velocity in the lower bracket
getColorInclusive(velocity) ==
    IF velocity <= 2 THEN <<0, 255, 0>>
    ELSE IF velocity <= 8 THEN <<255, 255, 0>>
    ELSE IF velocity <= 15 THEN <<255, 165, 0>>
    ELSE <<255, 0, 0>>

\* DroneTrail.getColorByVelocity(velocity)
getColorByVelocity(velocity) ==
    IF velocity < 2 THEN <<0, 255, 0>>
    ELSE IF velocity < 8 THEN <<255, 255, 0>>
    ELSE IF velocity < 15 THEN <<255, 165, 0>>
    ELSE <<255, 0, 0>>

\* a width without the floor of the altitude factor
getWidthNoFloor(alt) == Min(3 * alt, 8000)

\* altitude in decimetres, width in thousandths:
\* min(3 * max(1, altitude / 100), 8)
getWidthByAltitude(alt) == Min(3 * Max(1000, alt), 8000)

Segment(fromPosition, toPosition, velocity) ==
    [source   |-> fromPosition,
     dest     |-> toPosition,
     color    |-> getColorByVelocity(velocity),
     width    |-> getWidthByAltitude(toPosition[3]),
     velocity |-> velocity]

\* the point addTrailPoint of the point-mode trail stores
TrailPoint(coordinates, alt) ==
    IF alt # Null THEN <<coordinates[1], coordinates[2], alt>> ELSE coordinates

\* updateTrailOnMap: the coordinates handed to the map source, or the source's
\* old data when the call does not reach setData
updateTrailOnMap(points) ==
    IF mapInstance /\ Len(points) > 1
    THEN [i \in 1..Len(points) |->
            IF Len(points[i]) = 2 THEN <<points[i][1], points[i][2], 0>> ELSE points[i]]
    ELSE mapSource

\* an updateLayer that hands over the segments without the newest one, as a
\* notification sent before the push would
updateLayerBeforePush(layers, id, pathSegments) ==
    IF id \in DOMAIN layers /\ layers[id].live /\ Len(pathSegments) > 0
    THEN Put(layers, id, [layers[id] EXCEPT
                            !.data = SubSeq(pathSegments, 1, Len(pathSegments) - 1)])
    ELSE layers

\* DroneTrail.updateLayer of the layer-per-trail variant.  this.layer.setProps
\* reaches the map only when this.layer is the layer the map holds under the
\* trail's layerId (live).
updateLayer(layers, id, pathSegments) ==
    IF id \in DOMAIN layers /\ layers[id].live /\ Len(pathSegments) > 0
    THEN Put(layers, id, [layers[id] EXCEPT !.data = pathSegments])
    ELSE layers

\* TrailManager.updateAllLayers of the overlay variant: the layers of the one
\* deckOverlay.setProps call
updateAllLayers(trails, visible) ==
    IF visible THEN [id \in DOMAIN trails |-> trails[id]] ELSE EmptyMap

\* a layer as createLineLayer builds it (deck.gl layers are visible unless told
\* otherwise), and as part_000 initTrail adds it ('visibility' is 'visible'
\* unless laid out otherwise)
NewLayer == [data |-> <<>>, visible |-> TRUE, live |-> TRUE]

\* map.addLayer(layer) under id.  The map refuses a layer whose id it already
\* holds (it reports an error event and keeps the layer it has), so the layer
\* the new trail holds is then not the one on the map.
addLayer(layers, id) ==
    IF id \in DOMAIN layers
    THEN Put(layers, id, [layers[id] EXCEPT !.live = FALSE])
    ELSE Put(layers, id, NewLayer)

\* DroneTrail.setVisibility(visible) of the layer-per-trail variant
setVisibility(layers, id, visible) ==
    IF id \in DOMAIN layers /\ layers[id].live
    THEN Put(layers, id, [layers[id] EXCEPT !.visible = visible])
    ELSE layers

\* a destroy that leaves the layer on the map
keepLayer(layers, id) == layers

\* DroneTrail.destroy() of the layer-per-trail variant: map.removeLayer(layerId)
destroy(layers, id) == Remove(layers, id)

\* id of the one map layer of the point-mode trail
PointLayerId == "drone-trail"

-----------------------------------------------------------------------------
(* Arrays handed to the caller.  An array is a mutable object: returned.shared *)
(* tells whether the array the caller holds is the store's own array, so that *)
(* push and shift on the store show in it and edits of it show in the store.  *)

NoArray == [of |-> "none", shared |-> FALSE, elems |-> <<>>, taken |-> <<>>]

\* a getter that hands out the store's own array
ReturnStoreItself(pathSegments) == [shared |-> TRUE, elems |-> pathSegments]

\* DroneTrail.getPathSegments(): [...this.pathSegments]
getPathSegments(pathSegments) == [shared |-> FALSE, elems |-> pathSegments]

\* part_000 getTrailPoints(): [...trailPoints]
getTrailPointsPoints(points) == [shared |-> FALSE, elems |-> points]

\* trail.js / part_001 getTrailPoints(): a new array of new [lon, lat, alt]
getTrailPointsSegments(trails) ==
    IF DefaultDroneId \in DOMAIN trails
    THEN LET segments == getPathSegments(trails[DefaultDroneId]).elems
         IN  [shared |-> FALSE,
              elems |-> [i \in 1..Len(segments) |->
                            <<segments[i].dest[1], segments[i].dest[2],
                              segments[i].dest[3]>>]]
    ELSE [shared |-> FALSE, elems |-> <<>>]

\* the caller's array after push and shift made the store of trail id stored
Mutated(id, stored) ==
    returned' = IF returned.shared /\ returned.of = id
                THEN [returned EXCEPT !.elems = stored] ELSE returned

\* the caller's array after the store of trail id was replaced by a new array
Replaced(id) ==
    returned' = IF returned.of = id THEN [returned EXCEPT !.shared = FALSE]
                ELSE returned

-----------------------------------------------------------------------------
(* Trail stores: operations.  Each sets the primed trail variables, the       *)
(* caller's array and the history of accepted entries; the caller sets the    *)
(* rest.                                                                      *)

\* history: the entries accepted into trail id since it was last empty
Accept(id, entry) == accepted' = [accepted EXCEPT ![id] = Append(@, entry)]
Forget(id) == accepted' = [accepted EXCEPT ![id] = <<>>]

\* a point-mode addTrailPoint without the distance filter
addTrailPointUnfiltered(coordinates, alt) ==
    LET point  == TrailPoint(coordinates, alt)
        stored == PushBounded(trailPoints, point, MaxTrailPoints)
    IN  /\ UNCHANGED <<trailVariant, mapInstance, isTrailVisible,
                       droneTrails, mapLayers, deckLayers>>
        /\ trailPoints' = stored
        /\ mapSource' = updateTrailOnMap(stored)
        /\ Accept(DefaultDroneId, point)
        /\ Mutated(DefaultDroneId, stored)

\* part_000 addTrailPoint(coordinates, altitude = null)
addTrailPointPoints(coordinates, alt) ==
    LET point == TrailPoint(coordinates, alt)
    IN  /\ UNCHANGED <<trailVariant, mapInstance, isTrailVisible,
                       droneTrails, mapLayers, deckLayers>>
        /\ IF Len(trailPoints) = 0
           THEN /\ trailPoints' = Append(trailPoints, point)
                /\ mapSource' = mapSource
                /\ Accept(DefaultDroneId, point)
                /\ Mutated(DefaultDroneId, Append(trailPoints, point))
           ELSE LET lastPoint == Last(trailPoints)
                    distance  == calculateDistanceSq(<<lastPoint[1], lastPoint[2]>>,
                                                     coordinates)
                IN  IF Significant(distance)
                    THEN LET stored == PushBounded(trailPoints, point, MaxTrailPoints)
                         IN  /\ trailPoints' = stored
                             /\ mapSource' = updateTrailOnMap(stored)
                             /\ Accept(DefaultDroneId, point)
                             /\ Mutated(DefaultDroneId, stored)
                    ELSE UNCHANGED <<trailPoints, mapSource, accepted, returned>>

\* DroneTrail.addPathSegment(fromPosition, toPosition, velocity = 0) on trail id,
\* the registry being trails and the map's layers being layers when it is called
addPathSegmentIn(trails, layers, id, fromPosition, toPosition, velocity) ==
    /\ UNCHANGED <<trailVariant, mapInstance, isTrailVisible, trailPoints, mapSource>>
    /\ IF TooClose(calculateDistanceSq(fromPosition, toPosition))
       THEN /\ droneTrails' = trails
            /\ mapLayers' = layers
            /\ UNCHANGED <<deckLayers, accepted, returned>>
       ELSE LET segment == Segment(fromPosition, toPosition, velocity)
                stored  == PushBounded(trails[id], segment, MaxPathSegments)
                after   == Put(trails, id, stored)
            IN  /\ droneTrails' = after
                /\ Accept(id, segment)
                /\ Mutated(id, stored)
                /\ IF trailVariant = "layer"
                   THEN /\ mapLayers' = updateLayer(layers, id, stored)
                        /\ UNCHANGED deckLayers
                   ELSE /\ deckLayers' = updateAllLayers(after, isTrailVisible)
                        /\ mapLayers' = layers

\* trail.js:310, part_001:223  currentPos[i] - 0.00001
OffsetBack(x) == IF x = NaN THEN NaN ELSE x - FirstSegmentOffset

\* TrailManager.createTrailForDrone(droneId, map): the registry and the map's
\* layers after new DroneTrail(droneId, map) was set under droneId
createTrailForDrone(trails, id) == Put(trails, id, <<>>)
createTrailLayer(layers, id) ==
    IF trailVariant = "layer" THEN addLayer(layers, id) ELSE layers

\* an addTrailPoint that starts every segment from the offset position, as it
\* does the first
addTrailPointDetached(coordinates, alt, velocity) ==
    LET id       == DefaultDroneId
        created  == id \notin DOMAIN droneTrails /\ mapInstance
        trails   == IF created THEN createTrailForDrone(droneTrails, id) ELSE droneTrails
        layers   == IF created THEN createTrailLayer(mapLayers, id) ELSE mapLayers
        currentPos == <<coordinates[1], coordinates[2], IF alt = Null THEN 0 ELSE alt>>
        startPos == <<OffsetBack(currentPos[1]), OffsetBack(currentPos[2]), currentPos[3]>>
    IN  IF id \in DOMAIN trails
        THEN addPathSegmentIn(trails, layers, id, startPos, currentPos, velocity)
        ELSE UNCHANGED <<trailVars, accepted, returned>>

\* trail.js / part_001 addTrailPoint(coordinates, altitude = null, velocity = 0)
addTrailPointSegments(coordinates, alt, velocity) ==
    LET id       == DefaultDroneId
        registered == id \in DOMAIN droneTrails
        created  == ~registered /\ mapInstance
        trails   == IF created THEN createTrailForDrone(droneTrails, id) ELSE droneTrails
        layers   == IF created THEN createTrailLayer(mapLayers, id) ELSE mapLayers
        currentPos == <<coordinates[1], coordinates[2], IF alt = Null THEN 0 ELSE alt>>
    IN  IF id \in DOMAIN trails
        THEN IF Len(trails[id]) > 0
             THEN addPathSegmentIn(trails, layers, id, Last(trails[id]).dest,
                                   currentPos, velocity)
             ELSE LET startPos == <<OffsetBack(currentPos[1]),
                                    OffsetBack(currentPos[2]), currentPos[3]>>
                  IN  addPathSegmentIn(trails, layers, id, startPos, currentPos, velocity)
        ELSE UNCHANGED <<trailVars, accepted, returned>>

\* addTrailPoint of the trail module in use
addTrailPoint(coordinates, alt, velocity) ==
    IF trailVariant = "points"
    THEN addTrailPointPoints(coordinates, alt)
    ELSE addTrailPointSegments(coordinates, alt, velocity)

\* a clearTrail that asks the map for the source's setData without looking
\* whether the source is there
AnyMap(map) == map

\* part_000:96  map && map.getSource('drone-trail'): the source is there once
\* initTrail has run
HasSource(map) == map /\ mapInstance

\* part_000 clearTrail(map); setData on a source that is not there throws
clearTrailPoints(map) ==
    /\ trailPoints' = <<>>
    /\ mapSource' = IF HasSource(map) THEN <<>> ELSE mapSource
    /\ threw' = (HasSource(map) /\ ~mapInstance)
    /\ Forget(DefaultDroneId)
    /\ Replaced(DefaultDroneId)
    /\ UNCHANGED <<trailVariant, mapInstance, isTrailVisible,
                   droneTrails, mapLayers, deckLayers>>

\* DroneTrail.clear() of trail.js and of part_001
clear(id) ==
    LET after == Put(droneTrails, id, <<>>)
    IN  /\ droneTrails' = after
        /\ Forget(id)
        /\ Replaced(id)
        /\ IF trailVariant = "layer"
           THEN /\ mapLayers' = updateLayer(mapLayers, id, <<>>)
                /\ UNCHANGED deckLayers
           ELSE /\ deckLayers' = updateAllLayers(after, isTrailVisible)
                /\ UNCHANGED mapLayers
        /\ UNCHANGED <<trailVariant, mapInstance, isTrailVisible, trailPoints, mapSource>>

\* trail.js / part_001 clearTrail(map)
clearTrailSegments ==
    /\ threw' = FALSE
    /\ IF DefaultDroneId \in DOMAIN droneTrails
       THEN clear(DefaultDroneId)
       ELSE UNCHANGED <<trailVars, accepted, returned>>

clearTrail(map) ==
    IF trailVariant = "points" THEN clearTrailPoints(map) ELSE clearTrailSegments

\* TrailManager.removeTrail(droneId).  trail.js destroys the trail, which takes
\* its layer off the map, and then deletes the entry; part_001 deletes the
\* entry and then redraws the overlay.
removeTrail(id) ==
    /\ IF id \in DOMAIN droneTrails
       THEN LET after == Remove(droneTrails, id)
            IN  /\ droneTrails' = after
                /\ Forget(id)
                /\ Replaced(id)
                /\ IF trailVariant = "layer"
                   THEN /\ mapLayers' = destroy(mapLayers, id)
                        /\ UNCHANGED deckLayers
                   ELSE /\ deckLayers' = updateAllLayers(after, isTrailVisible)
                        /\ UNCHANGED mapLayers
       ELSE UNCHANGED <<droneTrails, mapLayers, deckLayers, accepted, returned>>
    /\ UNCHANGED <<trailVariant, mapInstance, isTrailVisible, trailPoints, mapSource>>

\* a toggle that hides the trails by emptying them
toggleByClearing ==
    /\ isTrailVisible' = ~isTrailVisible
    /\ droneTrails' = [id \in DOMAIN droneTrails |-> <<>>]
    /\ deckLayers' = EmptyMap
    /\ UNCHANGED <<trailVariant, mapInstance, trailPoints, mapSource, mapLayers>>

\* TrailManager.toggleAllTrailsVisibility()
toggleAllTrailsVisibility ==
    /\ isTrailVisible' = ~isTrailVisible
    /\ IF trailVariant = "layer"
       THEN /\ mapLayers' = [id \in DOMAIN mapLayers |->
                                IF id \in DOMAIN droneTrails
                                THEN setVisibility(mapLayers, id, ~isTrailVisible)[id]
                                ELSE mapLayers[id]]
            /\ UNCHANGED deckLayers
       ELSE /\ deckLayers' = updateAllLayers(droneTrails, ~isTrailVisible)
            /\ UNCHANGED mapLayers
    /\ UNCHANGED <<trailVariant, mapInstance, trailPoints, mapSource, droneTrails>>

\* TrailManager.clearAllTrails(): trail.clear() on every registered trail
clearAllTrails ==
    LET after == [id \in DOMAIN droneTrails |-> <<>>]
    IN  /\ droneTrails' = after
        /\ accepted' = [id \in TrailIds |->
                           IF id \in DOMAIN droneTrails THEN <<>> ELSE accepted[id]]
        /\ returned' = IF returned.of \in DOMAIN droneTrails
                       THEN [returned EXCEPT !.shared = FALSE] ELSE returned
        /\ IF trailVariant = "layer"
           THEN /\ mapLayers' = [id \in DOMAIN mapLayers |->
                                    IF id \in DOMAIN droneTrails
                                    THEN updateLayer(mapLayers, id, <<>>)[id]
                                    ELSE mapLayers[id]]
                /\ UNCHANGED deckLayers
           ELSE /\ deckLayers' = IF DOMAIN droneTrails = {} THEN deckLayers
                                 ELSE updateAllLayers(after, isTrailVisible)
                /\ UNCHANGED mapLayers
        /\ UNCHANGED <<trailVariant, mapInstance, isTrailVisible, trailPoints, mapSource>>

\* the number of deckOverlay.setProps calls (part_001:76, one for each call of
\* updateAllLayers) an operation of the overlay variant's trailManager makes:
\* removeTrail redraws when the id is registered,
removeTrailUpdates(trails, id) ==
    IF trailVariant = "overlay" /\ id \in DOMAIN trails THEN 1 ELSE 0
\* clearAllTrails redraws in the clear() of each registered trail,
clearAllTrailsUpdates(trails) ==
    IF trailVariant = "overlay" THEN Cardinality(DOMAIN trails) ELSE 0
\* and toggleAllTrailsVisibility redraws once
toggleAllTrailsVisibilityUpdates(trails) ==
    IF trailVariant = "overlay" THEN 1 ELSE 0

\* part_000 toggleTrailVisibility(map)
toggleTrailVisibilityPoints(map) ==
    /\ isTrailVisible' = ~isTrailVisible
    /\ mapLayers' = IF map /\ PointLayerId \in DOMAIN mapLayers
                    THEN Put(mapLayers, PointLayerId,
                             [mapLayers[PointLayerId] EXCEPT !.visible = ~isTrailVisible])
                    ELSE mapLayers
    /\ UNCHANGED <<trailVariant, mapInstance, trailPoints, mapSource, droneTrails,
                   deckLayers>>

\* the exported toggleTrailVisibility(map) of the trail module in use
toggleTrailVisibility(map) ==
    IF trailVariant = "points" THEN toggleTrailVisibilityPoints(map)
    ELSE toggleAllTrailsVisibility

-----------------------------------------------------------------------------
(* Drone and Navigation *)

\* inputs explored: targets [longitude, latitude] relative to the start position,
\* steps of 2 m
Maneuver(target, targetAlt, stepMeters, onComplete) ==
    [target |-> target, targetAlt |-> targetAlt,
     stepMeters |-> stepMeters, onComplete |-> onComplete]
Maneuvers ==
    {Maneuver(<<3000, 0>>, 1000, 2 * UnitsPerMeter, TRUE),
     Maneuver(<<0, 6000>>, 1050, 2 * UnitsPerMeter, TRUE),
     Maneuver(<<2400, 3200>>, 1000, 2 * UnitsPerMeter, FALSE),
     Maneuver(<<0, 0>>, 1050, 2 * UnitsPerMeter, TRUE)}
MarkerCoordinates == {<<3000, 0>>}
StartAltitudes == {DefaultAltitude}

\* the distance of the stepper, metres * 1000:
\* Math.sqrt((latB - latA) ** 2 + (lonB - lonA) ** 2) * 111000
TotalDist(latA, lonA, latB, lonB) ==
    IF NaN \in {latA, lonA, latB, lonB} THEN NaN
    ELSE Sqrt((latB - latA) * (latB - latA) + (lonB - lonA) * (lonB - lonA))

\* latA + factor * (latB - latA) with factor = stepMeters / totalDist
Interpolate(a, b, stepMeters, totalDist) ==
    IF NaN \in {a, b, totalDist} THEN NaN
    ELSE a + (stepMeters * (b - a)) \div totalDist

\* a maneuver on which Sqrt and the division of Interpolate are exact, or
\* yield NaN
ExactManeuver(target, stepMeters) ==
    LET dx == target[1] - longitude
        dy == target[2] - latitude
        d  == Sqrt(dx * dx + dy * dy)
    IN  IF NaN \in {target[1], target[2], longitude, latitude} THEN TRUE
        ELSE /\ d * d = dx * dx + dy * dy
             /\ d > 0 => /\ (stepMeters * dx) % d = 0
                         /\ (stepMeters * dy) % d = 0

\* a moveDroneToward that leaves the running loop scheduled
CancelNothing(active, handle) == active

\* a tick that leaves its loop scheduled
LeaveScheduled(active, handle) == active

\* clearInterval(handle)
clearInterval(active, handle) == active \ {handle}

\* threejs-layer.js:286-288  the timers left after cancelling the drone's loop
CancelActive(active, handle) ==
    IF handle # NoTimer THEN active \ {handle} ELSE active

\* an arrival check that misses the step that lands on the target
StrictlyWithinOneStep(totalDist, stepMeters) == totalDist < stepMeters

\* a tick that ends the loop without calling back
InvokeNever(onComplete, count) == count

\* threejs-layer.js:304, 341  if (onComplete) onComplete(): the number of
\* invocations of the maneuver's callback after this one
InvokeOnComplete(onComplete, count) == IF onComplete THEN count + 1 ELSE count

\* threejs-layer.js:334  stop when within one step
WithinOneStep(totalDist, stepMeters) ==
    IF totalDist = NaN THEN FALSE ELSE totalDist <= stepMeters

\* an arrival that waits until the altitude has reached the target altitude
ReachedTargetAndAltitude(totalDist, stepMeters, alt, targetAlt) ==
    WithinOneStep(totalDist, stepMeters) /\ alt = targetAlt

\* threejs-layer.js:334  the condition under which a tick ends its loop, the
\* altitude being alt after the tick's adjustment
ReachedTarget(totalDist, stepMeters, alt, targetAlt) ==
    WithinOneStep(totalDist, stepMeters)

\* threejs-layer.js:319-327  the altitude after one tick's adjustment
GlideAltitude(alt, targetAlt, verticalSpeed, moveFrequency) ==
    IF Abs(alt - targetAlt) > AltSnap
    THEN IF alt < targetAlt
         THEN alt + (verticalSpeed * 10) \div moveFrequency
         ELSE alt - (verticalSpeed * 10) \div moveFrequency
    ELSE targetAlt

\* history of maneuver id
NewLog(target, stepMeters) ==
    [dist0 |-> TotalDist(latitude, longitude, target[2], target[1]),
     step |-> stepMeters,
     alt0 |-> altitude, ticks |-> 0, completions |-> 0, throws |-> 0,
     state |-> "moving"]
Interrupt(history, active, how) ==
    [id \in DOMAIN history |->
        IF id \in active THEN [history[id] EXCEPT !.state = how] ELSE history[id]]

Op(name, a, b, n) == [op |-> name, from |-> a, to |-> b, n |-> n]
NoPos == <<0, 0, 0>>

\* history: the state of the trail module
View == [flag |-> isTrailVisible, points |-> trailPoints, source |-> mapSource,
         trails |-> droneTrails, layers |-> mapLayers, deck |-> deckLayers]

\* history: the current run of consecutive calls of one registry operation with
\* one argument: the views before the last but one call (or before the only
\* call), after it, and after the last call
NoRun == [op |-> "none", arg |-> <<>>, views |-> <<>>]
Extend(name, arg, before, after) ==
    IF run.op = name /\ run.arg = arg
    THEN [run EXCEPT !.views = <<run.views[Len(run.views) - 1],
                                 run.views[Len(run.views)], after>>]
    ELSE [op |-> name, arg |-> arg, views |-> <<before, after>>]

\* Drone.loadModel: the rtcGroup is created at the drone's position
LoadModel ==
    /\ ~rtcGroup
    /\ rtcGroup' = TRUE
    /\ rtcPosition' = <<longitude, latitude, altitude>>
    /\ rotation_y' = <<>>
    /\ UNCHANGED <<longitude, latitude, altitude, vertical_speed, move_frequency,
                   move_interval, loopVars, targetMarker, trailVars, callerVars,
                   histVars, run>>

\* initTrail(map); the point-mode trail adds its source and its layer
InitTrail ==
    /\ ~mapInstance
    /\ mapInstance' = TRUE
    /\ mapLayers' = IF trailVariant = "points" THEN addLayer(mapLayers, PointLayerId)
                    ELSE mapLayers
    /\ run' = NoRun
    /\ UNCHANGED <<droneVars, loopVars, targetMarker, trailVariant, isTrailVisible,
                   trailPoints, mapSource, droneTrails, deckLayers,
                   callerVars, histVars>>

\* markers addTargetMarker(map, coordinates)
AddTargetMarker(coordinates) ==
    /\ targetMarker' = coordinates
    /\ UNCHANGED <<droneVars, loopVars, trailVars, callerVars, histVars, run>>

\* a moveDroneToward that leaves the model's rotation as it is
keepHeading(targetLon, targetLat) == rotation_y

\* Drone.setHeadingToTarget(targetLon, targetLat): the rotation of the model,
\* Math.atan2(dx, dy) + Math.PI, held as the pair dx, dy it is the angle of;
\* without a loaded model there is no rotation to set
setHeadingToTarget(targetLon, targetLat) ==
    IF rtcGroup THEN <<targetLon - longitude, targetLat - latitude>> ELSE rotation_y

\* Navigation.moveDroneToward(target, targetAlt, stepMeters, onComplete)
MoveDroneToward(target, targetAlt, stepMeters, onComplete) ==
    /\ nextTimer <= MaxManeuvers
    /\ ExactManeuver(target, stepMeters)
    /\ timers' = CancelActive(timers, move_interval) \cup {nextTimer}
    /\ rotation_y' = setHeadingToTarget(target[1], target[2])
    /\ move_interval' = nextTimer
    /\ loops' = Put(loops, nextTimer,
                    Maneuver(target, targetAlt, stepMeters, onComplete))
    /\ nextTimer' = nextTimer + 1
    /\ log' = Put(Interrupt(log, timers, "superseded"), nextTimer,
               NewLog(target, stepMeters))
    /\ UNCHANGED <<longitude, latitude, altitude, vertical_speed, move_frequency,
                   rtcGroup, rtcPosition, targetMarker, trailVars, callerVars,
                   accepted, lastOp, run>>

\* a stopMovement that drops the handle and leaves the loop scheduled
DropHandleOnly(active, handle) == active

\* drone.js:119-120  clearInterval(this.move_interval) when a handle is held
StopHeld(active, handle) ==
    IF handle # NoTimer THEN clearInterval(active, handle) ELSE active

\* Drone.stopMovement()
StopMovement ==
    /\ timers' = StopHeld(timers, move_interval)
    /\ move_interval' = NoTimer
    /\ log' = Interrupt(log, timers \ timers', "stopped")
    /\ UNCHANGED <<longitude, latitude, altitude, vertical_speed, move_frequency,
                   rtcGroup, rtcPosition, rotation_y, loops, nextTimer,
                   targetMarker, trailVars, callerVars, accepted, lastOp, run>>

\* a tick that passes its speed in m/s, stepMeters * move_frequency, as the
\* velocity
SpeedOfStep(stepMeters, moveFrequency) ==
    (stepMeters * moveFrequency) \div UnitsPerMeter

\* threejs-layer.js:314  addTrailPoint is called with two arguments, whatever
\* the step and the frequency: its parameter velocity takes the default, 0
VelocityPassed(stepMeters, moveFrequency) == 0

\* a tick that hands the trail the position it is about to commit
PositionAfterStep(newLon, newLat, newAlt) == <<newLon, newLat, newAlt>>

\* threejs-layer.js:314  the longitude, latitude and altitude handed to
\* addTrailPoint, read before setPosition(newLon, newLat, ...) and before the
\* altitude adjustment
PositionBeforeStep(newLon, newLat, newAlt) == <<longitude, latitude, altitude>>

\* the callback of setInterval, run for scheduled loop id
Tick(id) ==
    LET c == loops[id]
        latA == latitude
        lonA == longitude
        latB == c.target[2]
        lonB == c.target[1]
        totalDist == TotalDist(latA, lonA, latB, lonB)
    IN  /\ id \in timers
        /\ vertical_speed' = vertical_speed
        /\ move_frequency' = move_frequency
        /\ UNCHANGED <<move_interval, rtcGroup, rotation_y, loops, nextTimer,
                       threw, run>>
        /\ IF totalDist = 0
           THEN /\ timers' = clearInterval(timers, move_interval)
                /\ log' = [log EXCEPT ![id].ticks = @ + 1,
                                      ![id].completions = InvokeOnComplete(c.onComplete, @),
                                      ![id].state = "zero"]
                /\ UNCHANGED <<longitude, latitude, altitude, rtcPosition,
                               targetMarker, trailVars, returned, accepted, lastOp>>
           ELSE LET newLat == Interpolate(latA, latB, c.stepMeters, totalDist)
                    newLon == Interpolate(lonA, lonB, c.stepMeters, totalDist)
                    newAlt == GlideAltitude(altitude, c.targetAlt, vertical_speed,
                                            move_frequency)
                    arrived == ReachedTarget(totalDist, c.stepMeters, newAlt, c.targetAlt)
                    offered == PositionBeforeStep(newLon, newLat, newAlt)
                IN  /\ addTrailPoint(<<offered[1], offered[2]>>, offered[3],
                                     VelocityPassed(c.stepMeters, move_frequency))
                    /\ longitude' = newLon
                    /\ latitude' = newLat
                    /\ altitude' = newAlt
                    /\ rtcPosition' = IF rtcGroup THEN <<newLon, newLat, newAlt>>
                                      ELSE rtcPosition
                    /\ timers' = IF arrived THEN clearInterval(timers, move_interval)
                                 ELSE timers
                    /\ targetMarker' = IF arrived THEN <<>> ELSE targetMarker
                    /\ log' = [log EXCEPT
                                 ![id].ticks = @ + 1,
                                 ![id].completions =
                                     IF arrived THEN InvokeOnComplete(c.onComplete, @)
                                     ELSE @,
                                 ![id].state = IF arrived THEN "arrived" ELSE @]
                    /\ lastOp' = lastOp

DroneInit ==
    /\ longitude = 0
    /\ latitude = 0
    /\ altitude \in StartAltitudes
    /\ vertical_speed = DefaultVerticalSpeed
    /\ move_frequency = DefaultMoveFrequency
    /\ move_interval = NoTimer
    /\ rtcGroup = FALSE
    /\ rtcPosition = <<>>
    /\ rotation_y = <<>>
    /\ timers = {}
    /\ loops = EmptyMap
    /\ nextTimer = 1
    /\ targetMarker = <<>>
    /\ log = EmptyMap

TrailInit ==
    /\ trailVariant \in {"points", "layer", "overlay"}
    /\ mapInstance = FALSE
    /\ isTrailVisible = TRUE
    /\ trailPoints = <<>>
    /\ mapSource = <<>>
    /\ droneTrails = EmptyMap
    /\ mapLayers = EmptyMap
    /\ deckLayers = EmptyMap
    /\ accepted = [id \in TrailIds |-> <<>>]
    /\ lastOp = Op("init", NoPos, NoPos, 0)
    /\ returned = NoArray
    /\ threw = FALSE
    /\ run = NoRun

Init == DroneInit /\ TrailInit

Next ==
    \/ LoadModel
    \/ InitTrail
    \/ \E coordinates \in MarkerCoordinates : AddTargetMarker(coordinates)
    \/ \E m \in Maneuvers :
          MoveDroneToward(m.target, m.targetAlt, m.stepMeters, m.onComplete)
    \/ StopMovement
    \/ \E id \in timers : Tick(id)

Spec == Init /\ [][Next]_vars

-----------------------------------------------------------------------------
(* Flights: flyToPosition and maneuvers of half-metre steps; then flights   *)
(* with ticks whose render notification throws.  All targets lie on the     *)
(* parallel of the start position.                                          *)

\* flyToPosition inputs [longitude, latitude, altitude]
Flights == {<<4000, 0, Null>>, <<4000, 0, 0>>, <<4000, 0, 1020>>}
\* moveDroneToward inputs with a step below the trail's minimum distance
SlowManeuvers ==
    {Maneuver(<<3000, 0>>, DefaultAltitude, UnitsPerMeter \div 2, FALSE),
     Maneuver(<<0, 0>>, DefaultAltitude, UnitsPerMeter \div 2, FALSE)}

\* threejs-layer.js:355  const stepDist = 2
stepDist == 2 * UnitsPerMeter

\* threejs-layer.js:354  altitude || this.drone.altitude: null, undefined and 0
\* are falsy
FlyTargetAlt(alt) == IF alt = Null \/ alt = 0 THEN altitude ELSE alt

\* Navigation.flyToPosition(longitude, latitude, altitude = null)
FlyToPosition(lon, lat, alt) ==
    MoveDroneToward(<<lon, lat>>, FlyTargetAlt(alt), stepDist, FALSE)

\* addTrailPoint(coordinates, ...) stores an entry and reaches the call that
\* notifies the render surface: setData of the map source (part_000), setProps
\* of the trail's layer (trail.js) or of the deck overlay (part_001)
NotifiesRender(coordinates) ==
    IF trailVariant = "points"
    THEN /\ Len(trailPoints) > 0
         /\ Significant(calculateDistanceSq(
                <<Last(trailPoints)[1], Last(trailPoints)[2]>>, coordinates))
         /\ mapInstance
    ELSE /\ mapInstance
         /\ IF DefaultDroneId \in DOMAIN droneTrails
               /\ Len(droneTrails[DefaultDroneId]) > 0
            THEN ~TooClose(calculateDistanceSq(Last(droneTrails[DefaultDroneId]).dest,
                                               coordinates))
            ELSE TRUE

\* addTrailPoint when that call throws: the entry was pushed (and the oldest
\* shifted out) before the call; taken tells whether the render surface had
\* taken the payload when it threw
addTrailPointThrows(coordinates, alt, velocity, taken) ==
    IF trailVariant = "points"
    THEN LET point  == TrailPoint(coordinates, alt)
             stored == PushBounded(trailPoints, point, MaxTrailPoints)
         IN  /\ trailPoints' = stored
             /\ mapSource' = IF taken THEN updateTrailOnMap(stored) ELSE mapSource
             /\ Accept(DefaultDroneId, point)
             /\ Mutated(DefaultDroneId, stored)
             /\ UNCHANGED <<trailVariant, mapInstance, isTrailVisible,
                            droneTrails, mapLayers, deckLayers>>
    ELSE LET id      == DefaultDroneId
             created == id \notin DOMAIN droneTrails
             trails  == IF created THEN createTrailForDrone(droneTrails, id)
                        ELSE droneTrails
             layers  == IF created THEN createTrailLayer(mapLayers, id) ELSE mapLayers
             currentPos == <<coordinates[1], coordinates[2],
                             IF alt = Null THEN 0 ELSE alt>>
             startPos == IF Len(trails[id]) > 0 THEN Last(trails[id]).dest
                         ELSE <<OffsetBack(currentPos[1]),
                                OffsetBack(currentPos[2]), currentPos[3]>>
             segment == Segment(startPos, currentPos, velocity)
             stored  == PushBounded(trails[id], segment, MaxPathSegments)
             after   == Put(trails, id, stored)
         IN  /\ droneTrails' = after
             /\ mapLayers' = IF trailVariant = "layer" /\ taken
                             THEN updateLayer(layers, id, stored) ELSE layers
             /\ deckLayers' = IF trailVariant = "overlay" /\ taken
                              THEN updateAllLayers(after, isTrailVisible)
                              ELSE deckLayers
             /\ Accept(id, segment)
             /\ Mutated(id, stored)
             /\ UNCHANGED <<trailVariant, mapInstance, isTrailVisible,
                            trailPoints, mapSource>>

\* an event loop that stops calling an interval's callback once it threw
DropsInterval(active, handle) == active \ {handle}

\* threejs-layer.js:293  setInterval: an exception that leaves the callback
\* is reported and the interval stays scheduled
KeepsInterval(active, handle) == active

\* the callback of setInterval, run for scheduled loop id, when the render
\* notification of its addTrailPoint call throws: the exception leaves the
\* callback at threejs-layer.js:314, before setPosition
TickRenderThrows(id, taken) ==
    LET c == loops[id]
        totalDist == TotalDist(latitude, longitude, c.target[2], c.target[1])
    IN  /\ id \in timers
        /\ totalDist # 0
        /\ NotifiesRender(<<longitude, latitude>>)
        /\ addTrailPointThrows(<<longitude, latitude>>, altitude,
                               VelocityPassed(c.stepMeters, move_frequency), taken)
        /\ timers' = KeepsInterval(timers, id)
        /\ log' = [log EXCEPT ![id].ticks = @ + 1, ![id].throws = @ + 1]
        /\ UNCHANGED <<droneVars, loops, nextTimer, targetMarker, threw, lastOp, run>>

NextFlight ==
    \/ InitTrail
    \/ \E f \in Flights : FlyToPosition(f[1], f[2], f[3])
    \/ \E m \in SlowManeuvers :
          MoveDroneToward(m.target, m.targetAlt, m.stepMeters, m.onComplete)
    \/ \E id \in timers : Tick(id)

SpecFlight == Init /\ [][NextFlight]_vars

\* the callback of a scheduled interval runs, and its render notification may
\* throw
TimerFires ==
    \E id \in timers, taken \in BOOLEAN : Tick(id) \/ TickRenderThrows(id, taken)

NextFaulty ==
    \/ InitTrail
    \/ \E f \in Flights : FlyToPosition(f[1], f[2], f[3])
    \/ \E id \in timers : Tick(id)
    \/ \E id \in timers, taken \in BOOLEAN : TickRenderThrows(id, taken)

\* the event loop runs the callback of a scheduled interval again and again
SpecFaulty == Init /\ [][NextFaulty]_vars /\ WF_vars(TimerFires)

-----------------------------------------------------------------------------
(* Malformed targets: moveDroneToward called with a coordinate that is not a *)
(* finite number.  Infinity is not told from NaN: with a target at Infinity  *)
(* totalDist is Infinity, which is neither 0 nor within a step, factor is 0  *)
(* and 0 * Infinity makes the new position NaN at the first tick.            *)

\* ticks explored of one loop
MaxLoopTicks == 3

MalformedManeuvers ==
    {Maneuver(<<NaN, 0>>, DefaultAltitude, 2 * UnitsPerMeter, TRUE),
     Maneuver(<<4000, NaN>>, DefaultAltitude + 50, 2 * UnitsPerMeter, TRUE),
     Maneuver(<<4000, 0>>, DefaultAltitude, 2 * UnitsPerMeter, TRUE)}

NextMalformed ==
    \/ InitTrail
    \/ \E m \in MalformedManeuvers :
          MoveDroneToward(m.target, m.targetAlt, m.stepMeters, m.onComplete)
    \/ \E id \in timers : log[id].ticks < MaxLoopTicks /\ Tick(id)

SpecMalformed == Init /\ [][NextMalformed]_vars

-----------------------------------------------------------------------------
(* Cancellation: maneuvers along the parallel of the start position, with    *)
(* callbacks, that differ in target, target altitude and step, and           *)
(* stopMovement.                                                             *)

\* moveDroneToward inputs: 4 m east in steps of 2 m climbing 5 m, and back to
\* the start in steps of 1 m at the start altitude
Outbound == Maneuver(<<4000, 0>>, DefaultAltitude + 50, 2 * UnitsPerMeter, TRUE)
Inbound == Maneuver(<<0, 0>>, DefaultAltitude, UnitsPerMeter, TRUE)
CancelManeuvers == {Outbound, Inbound}

NextCancel ==
    \/ InitTrail
    \/ \E m \in CancelManeuvers :
          MoveDroneToward(m.target, m.targetAlt, m.stepMeters, m.onComplete)
    \/ StopMovement
    \/ \E id \in timers : Tick(id)

SpecCancel == Init /\ [][NextCancel]_vars

-----------------------------------------------------------------------------
(* Properties of the stepper *)

Uninterrupted(id) == log[id].state \notin {"superseded", "stopped"}
CeilDiv(a, b) == (a + b - 1) \div b

\* C1: at most one tick loop is scheduled for the drone, it is the one whose
\* handle the drone holds, and a maneuver that was superseded (or stopped) is
\* no longer scheduled, so none of its ticks can run.
C1_SingleActiveLoop ==
    /\ Cardinality(timers) <= 1
    /\ timers \subseteq {move_interval}
    /\ \A id \in DOMAIN log : ~Uninterrupted(id) => id \notin timers

\* a second moveDroneToward superseded a maneuver in flight, and ticked since
C1_Witness ==
    \E id \in DOMAIN log :
        /\ log[id].state = "superseded"
        /\ log[id].ticks > 0
        /\ move_interval \in timers
        /\ log[move_interval].ticks > 0

C3_ArrivesAtTarget ==
    \A id \in DOMAIN log :
        (log[id].state = "arrived" /\ move_interval = id) =>
            /\ longitude = loops[id].target[1]
            /\ latitude = loops[id].target[2]

\* C4: an uninterrupted maneuver started with a callback has called it exactly
\* once when its loop has ended and not at all while its loop is scheduled.
C4_OnCompleteExactlyOnce ==
    \A id \in DOMAIN log :
        (loops[id].onComplete /\ Uninterrupted(id)) =>
            log[id].completions = IF id \in timers THEN 0 ELSE 1

\* maneuvers with a callback have ended by arrival after several ticks, and
\* by zero distance
C4_Witness ==
    /\ \E id \in DOMAIN log :
        /\ loops[id].onComplete /\ log[id].state = "arrived"
        /\ log[id].ticks > 1 /\ log[id].completions = 1
    /\ \E id \in DOMAIN log :
        /\ loops[id].onComplete /\ log[id].state = "zero"
        /\ log[id].completions = 1

\* C5 (as claimed): from altitude 100 m toward 105 m at 2 m/s and 1 Hz, the
\* altitude after the third tick of the maneuver is 105 m.
C5_AltitudeAfterThreeTicks ==
    \A id \in DOMAIN log :
        (/\ log[id].alt0 = 1000 /\ loops[id].targetAlt = 1050
         /\ vertical_speed = 2 /\ move_frequency = 1
         /\ log[id].state \in {"moving", "arrived"}
         /\ move_interval = id /\ log[id].ticks = 3)
            => altitude = 1050

-----------------------------------------------------------------------------
(* The trail module driven through its exported functions.  Positions are   *)
(* offered relative to the newest stored position.  LadderOffers are always  *)
(* offered and accept one entry, the next rung of a straight ladder; the     *)
(* RichOffers are offered too while fewer than MaxRich entries were accepted *)
(* since the trail was last empty.  Longer trails are explored along the     *)
(* ladder only, up to MaxBeyondCap accepted entries beyond the cap.          *)

Offer(offset, alt, velocity) == [offset |-> offset, alt |-> alt, velocity |-> velocity]
LadderOffers ==
    {Offer(<<0, 0>>, 1000, 0), Offer(<<706, 706>>, 1000, 0), Offer(<<600, 800>>, 1000, 0)}
RichOffers ==
    {Offer(<<999, 0>>, 1000, 0), Offer(<<600, 800>>, Null, 8), Offer(<<0, 1000>>, 0, 20)}
SegmentOffers ==
    {Offer(<<0, 0>>, 1000, 8), Offer(<<999, 0>>, 1000, 8), Offer(<<0, 998>>, 1000, 8),
     Offer(<<3000, 4000>>, 12000, 8)}

\* the newest stored position of the default trail, or the origin
Newest ==
    IF trailVariant = "points"
    THEN IF Len(trailPoints) > 0
         THEN <<Last(trailPoints)[1], Last(trailPoints)[2]>> ELSE <<0, 0>>
    ELSE IF DefaultDroneId \in DOMAIN droneTrails /\ Len(droneTrails[DefaultDroneId]) > 0
         THEN <<Last(droneTrails[DefaultDroneId]).dest[1],
                Last(droneTrails[DefaultDroneId]).dest[2]>>
         ELSE <<0, 0>>

Store == IF trailVariant = "points" THEN trailPoints
         ELSE IF DefaultDroneId \in DOMAIN droneTrails
              THEN droneTrails[DefaultDroneId] ELSE <<>>
Cap == IF trailVariant = "points" THEN MaxTrailPoints ELSE MaxPathSegments

\* the position an accepted entry records
Recorded(entry) == IF trailVariant = "points" THEN entry ELSE entry.dest

\* the accepted entries are the rungs of the ladder
OnLadder(entries) ==
    \A i \in 1..Len(entries) :
        /\ Recorded(entries[i]) = <<600 * i, 800 * i, 1000>>
        /\ trailVariant # "points" => entries[i].velocity = 0

\* while the caller holds an array, a trail is not grown along the ladder again
Offers ==
    LET n == Len(accepted[DefaultDroneId])
    IN  IF n < MaxRich THEN LadderOffers \cup RichOffers
        ELSE IF /\ n < MaxPathSegments + MaxBeyondCap
                /\ OnLadder(accepted[DefaultDroneId])
                /\ returned.of = "none" \/ Len(Store) = Cap
             THEN LadderOffers ELSE {}

\* a call of the exported addTrailPoint
AddTrailPoint ==
    \E o \in Offers :
        LET coordinates == <<Newest[1] + o.offset[1], Newest[2] + o.offset[2]>>
        IN  /\ addTrailPoint(coordinates, o.alt, o.velocity)
            /\ lastOp' = Op("addTrailPoint",
                            <<coordinates[1], coordinates[2], o.alt>>, NoPos, o.velocity)
            /\ threw' = FALSE
            /\ run' = NoRun
            /\ UNCHANGED <<droneVars, loopVars, targetMarker, log>>

\* a call of trailManager.getTrail(id).addPathSegment
AddPathSegment ==
    \E id \in DOMAIN droneTrails, o \in SegmentOffers :
        LET from == <<Newest[1], Newest[2], 1000>>
            to   == <<from[1] + o.offset[1], from[2] + o.offset[2], o.alt>>
        IN  /\ Len(accepted[id]) < MaxRich
            /\ addPathSegmentIn(droneTrails, mapLayers, id, from, to, o.velocity)
            /\ lastOp' = Op("addPathSegment", from, to, o.velocity)
            /\ threw' = FALSE
            /\ run' = NoRun
            /\ UNCHANGED <<droneVars, loopVars, targetMarker, log>>

\* a call of the exported clearTrail(map), as ui.js:172 makes it; lastOp.n is
\* the number of entries the trail held when it was called
ClearTrail ==
    /\ clearTrail(TRUE)
    /\ lastOp' = Op("clearTrail", NoPos, NoPos, Len(Store))
    /\ run' = Extend("clearTrail", <<>>, View, View')
    /\ UNCHANGED <<droneVars, loopVars, targetMarker, log>>

\* the caller reads the trail once, when the store is full and the next accepted
\* entry evicts one
ReadNow == returned.of = "none" /\ Len(accepted[DefaultDroneId]) = Cap

Held(id, array) ==
    [of |-> id, shared |-> array.shared, elems |-> array.elems, taken |-> array.elems]

\* a call of the exported getTrailPoints()
GetTrailPoints ==
    /\ ReadNow
    /\ returned' = Held(DefaultDroneId,
                        IF trailVariant = "points" THEN getTrailPointsPoints(trailPoints)
                        ELSE getTrailPointsSegments(droneTrails))
    /\ lastOp' = Op("getTrailPoints", NoPos, NoPos, Len(Store))
    /\ threw' = FALSE
    /\ run' = NoRun
    /\ UNCHANGED <<droneVars, loopVars, targetMarker, trailVars, log, accepted>>

\* a call of trailManager.getTrail(id).getPathSegments()
GetPathSegments ==
    \E id \in DOMAIN droneTrails :
        /\ ReadNow
        /\ returned' = Held(id, getPathSegments(droneTrails[id]))
        /\ lastOp' = Op("getPathSegments", NoPos, NoPos, Len(droneTrails[id]))
        /\ threw' = FALSE
        /\ run' = NoRun
        /\ UNCHANGED <<droneVars, loopVars, targetMarker, trailVars, log, accepted>>

\* the caller's edits of an array it holds: pop(), or push of a copy of its
\* first element
Edits(elems) ==
    IF Len(elems) = 0 THEN {}
    ELSE {SubSeq(elems, 1, Len(elems) - 1), Append(elems, elems[1])}

\* the caller edits the array it was handed, once
EditReturned ==
    \E edited \in Edits(returned.elems) :
        /\ returned.of # "none"
        /\ returned.elems = returned.taken
        /\ lastOp.op \in {"getTrailPoints", "getPathSegments"}
        /\ returned' = [returned EXCEPT !.elems = edited, !.taken = edited]
        /\ IF returned.shared
           THEN IF trailVariant = "points"
                THEN /\ trailPoints' = edited
                     /\ UNCHANGED droneTrails
                ELSE /\ droneTrails' = Put(droneTrails, returned.of, edited)
                     /\ UNCHANGED trailPoints
           ELSE UNCHANGED <<trailPoints, droneTrails>>
        /\ lastOp' = Op("editReturned", NoPos, NoPos, Len(edited))
        /\ threw' = FALSE
        /\ run' = NoRun
        /\ UNCHANGED <<droneVars, loopVars, targetMarker, trailVariant, mapInstance,
                       isTrailVisible, mapSource, mapLayers, deckLayers, log, accepted>>

NextTrail ==
    \/ InitTrail
    \/ AddTrailPoint
    \/ AddPathSegment
    \/ ClearTrail
    \/ GetTrailPoints
    \/ GetPathSegments
    \/ EditReturned

SpecTrail == Init /\ [][NextTrail]_vars

\* the trail fed through the exported addTrailPoint only
NextPath ==
    \/ InitTrail
    \/ AddTrailPoint
    \/ ClearTrail

SpecPath == Init /\ [][NextPath]_vars

-----------------------------------------------------------------------------
(* The trail registry driven through the trailManager and the exported        *)
(* functions, with two drones and trails of at most MaxRegistered segments.   *)

RegistryOffers == {Offer(<<600, 800>>, 1000, 0)}

NewestOf(id) ==
    IF id \in DOMAIN droneTrails /\ Len(droneTrails[id]) > 0
    THEN Last(droneTrails[id]).dest ELSE <<0, 0, 1000>>

\* a call of the exported addTrailPoint on a short trail
AddTrailPointShort ==
    \E o \in RegistryOffers :
        LET coordinates == <<Newest[1] + o.offset[1], Newest[2] + o.offset[2]>>
        IN  /\ Len(accepted[DefaultDroneId]) < MaxRegistered
            /\ addTrailPoint(coordinates, o.alt, o.velocity)
            /\ lastOp' = Op("addTrailPoint",
                            <<coordinates[1], coordinates[2], o.alt>>, NoPos, o.velocity)
            /\ threw' = FALSE
            /\ run' = NoRun
            /\ UNCHANGED <<droneVars, loopVars, targetMarker, log>>

\* a call of trailManager.getTrail(id).addPathSegment on a short trail of
\* another drone than the default one
AddSegment ==
    \E id \in DOMAIN droneTrails \ {DefaultDroneId}, o \in RegistryOffers :
        LET from == NewestOf(id)
            to   == <<from[1] + o.offset[1], from[2] + o.offset[2], o.alt>>
        IN  /\ Len(accepted[id]) < MaxRegistered
            /\ addPathSegmentIn(droneTrails, mapLayers, id, from, to, o.velocity)
            /\ lastOp' = Op("addPathSegment", from, to, o.velocity)
            /\ threw' = FALSE
            /\ run' = NoRun
            /\ UNCHANGED <<droneVars, loopVars, targetMarker, log>>

\* a call of trailManager.createTrailForDrone(id, map); lastOp.n is the number
\* of segments registered under id when it was called
CreateTrailForDrone ==
    \E id \in TrailIds :
        /\ trailVariant # "points"
        /\ droneTrails' = createTrailForDrone(droneTrails, id)
        /\ mapLayers' = createTrailLayer(mapLayers, id)
        /\ Forget(id)
        /\ Replaced(id)
        /\ lastOp' = Op("createTrailForDrone", NoPos, NoPos,
                        IF id \in DOMAIN droneTrails THEN Len(droneTrails[id]) ELSE 0)
        /\ threw' = FALSE
        /\ UNCHANGED <<droneVars, loopVars, targetMarker, trailVariant, mapInstance,
                       isTrailVisible, trailPoints, mapSource, deckLayers, log>>
        /\ run' = Extend("createTrailForDrone", <<id>>, View, View')

\* the number of deckOverlay.setProps calls an operation made, as lastOp.to
Updates(calls) == <<calls, 0, 0>>

\* a call of trailManager.removeTrail(id); lastOp.n is 1 when the map still
\* held the layer of the trail at the time its entry was deleted
RemoveTrail ==
    \E id \in TrailIds :
        /\ trailVariant # "points"
        /\ removeTrail(id)
        /\ lastOp' = Op("removeTrail", NoPos, Updates(removeTrailUpdates(droneTrails, id)),
                        IF /\ trailVariant = "layer"
                           /\ id \in DOMAIN droneTrails
                           /\ id \in DOMAIN destroy(mapLayers, id)
                        THEN 1 ELSE 0)
        /\ threw' = FALSE
        /\ run' = Extend("removeTrail", <<id>>, View, View')
        /\ UNCHANGED <<droneVars, loopVars, targetMarker, log>>

\* a call of the exported toggleTrailVisibility(map), as ui.js:176 makes it;
\* lastOp.n is the value returned, 1 for true
ToggleTrailVisibility ==
    /\ toggleTrailVisibility(TRUE)
    /\ lastOp' = Op("toggleTrailVisibility", NoPos,
                    Updates(toggleAllTrailsVisibilityUpdates(droneTrails)),
                    IF isTrailVisible' THEN 1 ELSE 0)
    /\ threw' = FALSE
    /\ run' = Extend("toggleTrailVisibility", <<>>, View, View')
    /\ UNCHANGED <<droneVars, loopVars, targetMarker, log, accepted, returned>>

\* a call of trailManager.getTrail(id).setVisibility(visible)
SetVisibility ==
    \E id \in DOMAIN droneTrails, visible \in BOOLEAN :
        /\ trailVariant = "layer"
        /\ mapLayers' = setVisibility(mapLayers, id, visible)
        /\ lastOp' = Op("setVisibility", NoPos, NoPos, IF visible THEN 1 ELSE 0)
        /\ threw' = FALSE
        /\ UNCHANGED <<droneVars, loopVars, targetMarker, trailVariant, mapInstance,
                       isTrailVisible, trailPoints, mapSource, droneTrails, deckLayers,
                       log, accepted, returned>>
        /\ run' = Extend("setVisibility", <<id, visible>>, View, View')

\* a call of trailManager.clearAllTrails(); lastOp.n is the number of
\* registered trails when it was called
ClearAllTrails ==
    /\ trailVariant # "points"
    /\ clearAllTrails
    /\ lastOp' = Op("clearAllTrails", NoPos,
                    Updates(clearAllTrailsUpdates(droneTrails)),
                    Cardinality(DOMAIN droneTrails))
    /\ threw' = FALSE
    /\ run' = Extend("clearAllTrails", <<>>, View, View')
    /\ UNCHANGED <<droneVars, loopVars, targetMarker, log>>

NextRegistry ==
    \/ InitTrail
    \/ AddTrailPointShort
    \/ AddSegment
    \/ CreateTrailForDrone
    \/ RemoveTrail
    \/ ToggleTrailVisibility
    \/ SetVisibility
    \/ ClearTrail
    \/ ClearAllTrails

SpecRegistry == Init /\ [][NextRegistry]_vars

-----------------------------------------------------------------------------
(* Removal of a trail whose layer the map fails to remove (layer-per-trail   *)
(* variant)                                                                  *)

\* a destroy without the try, which an exception of removeLayer leaves
Uncaught(thrown) == thrown

\* trail.js:264-269  try { this.map.removeLayer(...) } catch (error) { warn }:
\* whether an exception thrown by removeLayer leaves destroy()
LeavesDestroy(thrown) == FALSE

\* TrailManager.removeTrail(id) of trail.js on a registered id, when
\* map.removeLayer throws; taken tells whether the map had dropped the layer
\* when it threw.  An exception that leaves destroy() skips
\* this.pathSegments = [] (trail.js:271) and droneTrails.delete (trail.js:59).
\* lastOp.n is the number of segments the trail object is left with.
RemoveTrailThrows ==
    \E id \in DOMAIN droneTrails, taken \in BOOLEAN :
        LET escaped == LeavesDestroy(TRUE)
        IN  /\ trailVariant = "layer"
            /\ mapLayers' = IF taken THEN destroy(mapLayers, id) ELSE mapLayers
            /\ threw' = escaped
            /\ IF escaped
               THEN /\ UNCHANGED <<droneTrails, accepted, returned>>
                    /\ lastOp' = Op("removeTrail", NoPos, NoPos, Len(droneTrails[id]))
               ELSE /\ droneTrails' = Remove(droneTrails, id)
                    /\ Forget(id)
                    /\ Replaced(id)
                    /\ lastOp' = Op("removeTrail", NoPos, NoPos, 0)
            /\ UNCHANGED <<droneVars, loopVars, targetMarker, log, trailVariant,
                           mapInstance, isTrailVisible, trailPoints, mapSource,
                           deckLayers>>
            /\ run' = Extend("removeTrailThrows", <<id>>, View, View')

NextRemoval ==
    \/ InitTrail
    \/ AddTrailPointShort
    \/ CreateTrailForDrone
    \/ AddSegment
    \/ RemoveTrail
    \/ RemoveTrailThrows

SpecRemoval == Init /\ [][NextRemoval]_vars

-----------------------------------------------------------------------------
(* The styling of segments: one velocity and one destination altitude per    *)
(* offer, on trails of at most MaxStyled segments.                           *)

StyleOffers ==
    {Offer(<<600, 800>>, -500, -1),  Offer(<<600, 800>>, 0, 1),
     Offer(<<600, 800>>, 500, 2),    Offer(<<600, 800>>, 1000, 5),
     Offer(<<600, 800>>, 1500, 8),   Offer(<<600, 800>>, 2000, 10),
     Offer(<<600, 800>>, 2660, 14),  Offer(<<600, 800>>, 2670, 15),
     Offer(<<600, 800>>, 12000, 20)}

\* a call of the exported addTrailPoint with a velocity
AddStyledPoint ==
    \E o \in StyleOffers :
        LET coordinates == <<Newest[1] + o.offset[1], Newest[2] + o.offset[2]>>
        IN  /\ Len(accepted[DefaultDroneId]) < MaxStyled
            /\ addTrailPoint(coordinates, o.alt, o.velocity)
            /\ lastOp' = Op("addTrailPoint",
                            <<coordinates[1], coordinates[2], o.alt>>, NoPos, o.velocity)
            /\ threw' = FALSE
            /\ run' = NoRun
            /\ UNCHANGED <<droneVars, loopVars, targetMarker, log>>

\* a call of trailManager.getTrail(id).addPathSegment with a velocity
AddStyledSegment ==
    \E id \in DOMAIN droneTrails, o \in StyleOffers :
        LET from == NewestOf(id)
            to   == <<from[1] + o.offset[1], from[2] + o.offset[2], o.alt>>
        IN  /\ Len(accepted[id]) < MaxStyled
            /\ addPathSegmentIn(droneTrails, mapLayers, id, from, to, o.velocity)
            /\ lastOp' = Op("addPathSegment", from, to, o.velocity)
            /\ threw' = FALSE
            /\ run' = NoRun
            /\ UNCHANGED <<droneVars, loopVars, targetMarker, log>>

\* a distance without Math.sqrt
calculateDistanceNoSqrt(pos1, pos2) == calculateDistanceSq(pos1, pos2)

\* DroneTrail.calculateDistance(pos1, pos2): Math.sqrt of the squared distance
calculateDistance(pos1, pos2) == Sqrt(calculateDistanceSq(pos1, pos2))

\* pathSegments.reduce((total, segment) =>
\*     total + this.calculateDistance(segment.source, segment.dest), 0)
RECURSIVE reduceDistance(_, _)
reduceDistance(pathSegments, total) ==
    IF Len(pathSegments) = 0 THEN total
    ELSE reduceDistance(Tail(pathSegments),
                        total + calculateDistance(Head(pathSegments).source,
                                                  Head(pathSegments).dest))

\* pathSegments.reduce((sum, seg) => sum + (seg.velocity || 0), 0);
\* seg.velocity || 0 is seg.velocity on numbers
RECURSIVE reduceVelocity(_, _)
reduceVelocity(pathSegments, sum) ==
    IF Len(pathSegments) = 0 THEN sum
    ELSE reduceVelocity(Tail(pathSegments), sum + Head(pathSegments).velocity)

\* DroneTrail.getStats()
getStats(pathSegments) ==
    [segmentCount  |-> Len(pathSegments),
     totalDistance |-> reduceDistance(pathSegments, 0),
     avgVelocity   |-> IF Len(pathSegments) > 0
                       THEN reduceVelocity(pathSegments, 0) \div Len(pathSegments)
                       ELSE 0]

\* Math.sqrt and the division of getStats are exact on these segments
ExactStats(pathSegments) ==
    /\ \A i \in 1..Len(pathSegments) :
          LET d == calculateDistanceSq(pathSegments[i].source, pathSegments[i].dest)
          IN  Sqrt(d) * Sqrt(d) = d
    /\ Len(pathSegments) > 0 =>
          reduceVelocity(pathSegments, 0) % Len(pathSegments) = 0

\* a call of trailManager.getTrail('default-drone').getStats(); lastOp.from is
\* the returned segmentCount, totalDistance and avgVelocity
GetStats ==
    /\ DefaultDroneId \in DOMAIN droneTrails
    /\ ExactStats(droneTrails[DefaultDroneId])
    /\ LET stats == getStats(droneTrails[DefaultDroneId])
       IN  lastOp' = Op("getStats",
                        <<stats.segmentCount, stats.totalDistance, stats.avgVelocity>>,
                        NoPos, 0)
    /\ threw' = FALSE
    /\ run' = NoRun
    /\ UNCHANGED <<droneVars, loopVars, targetMarker, trailVars, returned, log, accepted>>

NextStyle ==
    \/ InitTrail
    \/ AddStyledPoint
    \/ AddStyledSegment
    \/ ClearTrail
    \/ GetStats

SpecStyle == Init /\ [][NextStyle]_vars

-----------------------------------------------------------------------------
(* Properties of the trail stores *)

Segments == IF DefaultDroneId \in DOMAIN droneTrails
            THEN droneTrails[DefaultDroneId] ELSE <<>>
History == accepted[DefaultDroneId]

\* C6: a trail store never holds more entries than its cap: 200 points in
\* the point-mode trail, 300 segments in every segment-mode trail.
C6_BoundedStore ==
    /\ Len(trailPoints) <= MaxTrailPoints
    /\ \A id \in DOMAIN droneTrails : Len(droneTrails[id]) <= MaxPathSegments

\* the store is full and an append has evicted an entry
C6_Witness ==
    /\ Len(History) > Cap
    /\ Len(Store) = Cap
    /\ lastOp.op = "addTrailPoint"

\* C7: once cap or more entries were accepted since the trail was last empty,
\* the store holds exactly the cap most recently accepted entries, in the
\* order in which they were accepted.
C7_FifoEviction ==
    Len(History) >= Cap =>
        Store = SubSeq(History, Len(History) - Cap + 1, Len(History))

\* two entries were evicted: the store starts at the third accepted entry
C7_Witness ==
    /\ Len(History) = Cap + 2
    /\ Len(Store) = Cap
    /\ Store[1] = History[3]
    /\ Store[1] # History[1]

\* C8: in the point-mode trail no two consecutive stored points are within
\* the minimum distance (0.000009 degrees) of each other.
C8_DedupPoints ==
    \A i \in 1..(Len(trailPoints) - 1) :
        calculateDistanceSq(trailPoints[i], trailPoints[i + 1]) > MinDistance * MinDistance

\* after evictions, a point within the minimum distance of the newest stored
\* point was offered and is not stored
C8_Witness ==
    /\ trailVariant = "points"
    /\ Len(History) > MaxTrailPoints
    /\ lastOp.op = "addTrailPoint"
    /\ lastOp.from # Last(trailPoints)
    /\ calculateDistanceSq(Last(trailPoints), lastOp.from) > 0
    /\ calculateDistanceSq(Last(trailPoints), lastOp.from) <= MinDistance * MinDistance

Rendered ==
    IF trailVariant = "points" THEN mapSource
    ELSE IF trailVariant = "layer"
         THEN IF DefaultDroneId \in DOMAIN mapLayers
              THEN mapLayers[DefaultDroneId].data ELSE <<>>
         ELSE IF DefaultDroneId \in DOMAIN deckLayers
              THEN deckLayers[DefaultDroneId] ELSE <<>>

\* C10 (as claimed): after clearTrail on a trail that held entries, the store
\* is empty and the render surface holds no geometry of the trail.
C10_ClearEmptiesRender ==
    (lastOp.op = "clearTrail" /\ lastOp.n > 0) =>
        /\ Len(Store) = 0
        /\ Len(Rendered) = 0

-----------------------------------------------------------------------------
(* Properties of the registry, of visibility and of the returned arrays *)

\* the trails a view holds: the one trail of the point-mode module, or the
\* registered ones
RegisteredIn(v) == IF trailVariant = "points" THEN {DefaultDroneId} ELSE DOMAIN v.trails

\* the render surface of view v is set to draw trail id
VisibleIn(v, id) ==
    IF trailVariant = "points"
    THEN PointLayerId \in DOMAIN v.layers /\ v.layers[PointLayerId].visible
    ELSE IF trailVariant = "layer"
         THEN id \in DOMAIN v.layers /\ v.layers[id].visible
         ELSE id \in DOMAIN v.deck

\* the geometry the render surface of view v holds for trail id
GeometryIn(v, id) ==
    IF trailVariant = "points" THEN v.source
    ELSE IF trailVariant = "layer"
         THEN IF id \in DOMAIN v.layers THEN v.layers[id].data ELSE <<>>
         ELSE IF id \in DOMAIN v.deck THEN v.deck[id] ELSE <<>>

\* the render surface of view v shows geometry of trail id
ShowsIn(v, id) == VisibleIn(v, id) /\ Len(GeometryIn(v, id)) > 0

\* the views before and after the last call of the run
Before == run.views[Len(run.views) - 1]
After == run.views[Len(run.views)]

\* C11 (as claimed): whenever the global visibility flag is false, the render
\* surface shows the geometry of no registered trail, also of one created
\* after the flag was switched off.
C11_HiddenWhenFlagOff ==
    ~isTrailVisible => \A id \in RegisteredIn(View) : ~ShowsIn(View, id)

\* C12: after clearTrail the store is empty and the call has not thrown; a
\* clearTrail that follows a clearTrail leaves the trail module, store and
\* render payload, as the first one left it.
C12_ClearIdempotent ==
    run.op = "clearTrail" =>
        /\ ~threw
        /\ Len(Store) = 0
        /\ Len(run.views) = 3 =>
              /\ run.views[3] = run.views[2]
              /\ Len(run.views[2].points) = 0
              /\ \A id \in DOMAIN run.views[2].trails \cap {DefaultDroneId} :
                    Len(run.views[2].trails[id]) = 0

\* clearTrail was called twice in a row on a trail that held entries, after
\* initTrail
C12_Witness ==
    /\ run.op = "clearTrail"
    /\ Len(run.views) = 3
    /\ mapInstance
    /\ lastOp.n = 0
    /\ \/ Len(run.views[1].points) > 0
       \/ /\ DefaultDroneId \in DOMAIN run.views[1].trails
          /\ Len(run.views[1].trails[DefaultDroneId]) > 0

\* C15 (as claimed): toggleTrailVisibility flips the global flag and returns
\* its new value, and two toggles in a row return the flag to what it was and
\* leave every registered trail shown if it was shown and hidden if it was
\* hidden.
C15_ToggleTwiceRestores ==
    run.op = "toggleTrailVisibility" =>
        /\ After.flag = ~Before.flag
        /\ lastOp.n = IF isTrailVisible THEN 1 ELSE 0
        /\ Len(run.views) = 3 =>
              /\ run.views[3].flag = run.views[1].flag
              /\ \A id \in RegisteredIn(run.views[1]) :
                    ShowsIn(run.views[3], id) = ShowsIn(run.views[1], id)

\* C16: a call of toggleTrailVisibility or of setVisibility leaves the stored
\* points and the stored segments of every trail as they were.
C16_VisibilityKeepsData ==
    run.op \in {"toggleTrailVisibility", "setVisibility"} =>
        /\ After.points = Before.points
        /\ After.trails = Before.trails

\* the trails were hidden by a toggle while a store held entries
C16_Witness ==
    /\ run.op = "toggleTrailVisibility"
    /\ ~isTrailVisible
    /\ Len(Store) > 0
    /\ \A id \in RegisteredIn(View) : ~VisibleIn(View, id)

\* C18 (as claimed): createTrailForDrone on an id that is registered leaves
\* the existing store, with its segments, registered under the id.
C18_CreateKeepsExisting ==
    (run.op = "createTrailForDrone" /\ run.arg[1] \in DOMAIN Before.trails) =>
        /\ run.arg[1] \in DOMAIN After.trails
        /\ After.trails[run.arg[1]] = Before.trails[run.arg[1]]

\* C19: after removeTrail(id) on a registered id the registry has no entry
\* for id and the render surface holds no layer and no geometry for id; where
\* the trail owns a layer, the layer was off the map when the entry was
\* deleted; every other trail is registered with the segments it had.
\* removeTrail(id) on an id that is not registered changes nothing.
C19_RemoveReleases ==
    run.op = "removeTrail" =>
        LET id == run.arg[1]
        IN  /\ id \notin DOMAIN After.trails
            /\ id \notin DOMAIN After.layers
            /\ id \notin DOMAIN After.deck
            /\ lastOp.n = 0
            /\ \A other \in DOMAIN Before.trails \ {id} :
                  /\ other \in DOMAIN After.trails
                  /\ After.trails[other] = Before.trails[other]
            /\ id \notin DOMAIN Before.trails => After = Before

\* a trail whose segments were drawn was removed while another trail held
\* segments
C19_Witness ==
    /\ run.op = "removeTrail"
    /\ run.arg[1] \in DOMAIN Before.trails
    /\ Len(Before.trails[run.arg[1]]) > 0
    /\ Len(GeometryIn(Before, run.arg[1])) > 0
    /\ \E other \in DOMAIN After.trails : Len(After.trails[other]) > 0

\* the store as the accepted entries make it: the newest Cap of them
Kept == SubSeq(History, Max(1, Len(History) - Cap + 1), Len(History))

\* C17: the array a getter returned holds what it held when it was returned,
\* with the caller's own edits, whatever was appended to, evicted from or
\* cleared in the store since; and the store holds the entries it accepted,
\* whatever the caller did to the array.
C17_ReturnedIsCopy ==
    /\ returned.elems = returned.taken
    /\ Store = Kept

\* the caller read a full store and edited the array, and the store has
\* since evicted an entry
C17_Witness ==
    /\ returned.of = DefaultDroneId
    /\ Len(returned.elems) # Cap
    /\ Len(returned.elems) > 0
    /\ Len(History) > Cap
    /\ Store[1] # returned.elems[1]

\* the style the claims give a segment
ClaimedColor(v) ==
    IF v < 2 THEN <<0, 255, 0>>
    ELSE IF v >= 2 /\ v < 8 THEN <<255, 255, 0>>
    ELSE IF v >= 8 /\ v < 15 THEN <<255, 165, 0>>
    ELSE <<255, 0, 0>>
ClaimedWidth(alt) ==
    IF alt <= 1000 THEN 3000 ELSE IF 3 * alt >= 8000 THEN 8000 ELSE 3 * alt

\* C13: every stored segment has the colour of its velocity's bracket: green
\* below 2, yellow from 2 and below 8, orange from 8 and below 15, red from 15.
C13_ColorBrackets ==
    \A id \in DOMAIN droneTrails :
        \A i \in 1..Len(droneTrails[id]) :
            droneTrails[id][i].color = ClaimedColor(droneTrails[id][i].velocity)

\* segments at the boundary velocities 2 and 15 are stored, yellow and red
C13_Witness ==
    \E id \in DOMAIN droneTrails :
        /\ Len(droneTrails[id]) = 2
        /\ droneTrails[id][1].velocity = 2
        /\ droneTrails[id][1].color = <<255, 255, 0>>
        /\ droneTrails[id][2].velocity = 15
        /\ droneTrails[id][2].color = <<255, 0, 0>>

\* C14: the width stored with a segment is min(3 * max(1, altitude / 100), 8)
\* of its destination altitude, and lies between 3 and 8.
C14_WidthClamped ==
    \A id \in DOMAIN droneTrails :
        \A i \in 1..Len(droneTrails[id]) :
            /\ droneTrails[id][i].width = ClaimedWidth(droneTrails[id][i].dest[3])
            /\ droneTrails[id][i].width >= 3000
            /\ droneTrails[id][i].width <= 8000

\* segments with a negative and with a large destination altitude are stored
C14_Witness ==
    \E id \in DOMAIN droneTrails :
        /\ Len(droneTrails[id]) = 2
        /\ droneTrails[id][1].dest[3] < 0
        /\ droneTrails[id][1].width = 3000
        /\ droneTrails[id][2].dest[3] = 12000
        /\ droneTrails[id][2].width = 8000

\* C20: a tick that finds the vehicle at distance 0 of its target ends the
\* loop, calls onComplete if there is one, and changes neither longitude,
\* latitude, altitude nor the trail.
C20_ZeroDistanceTick ==
    [][\A id \in timers :
          (Tick(id) /\ TotalDist(latitude, longitude,
                                 loops[id].target[2], loops[id].target[1]) = 0) =>
              /\ id \notin timers'
              /\ log'[id].completions =
                    log[id].completions + (IF loops[id].onComplete THEN 1 ELSE 0)
              /\ UNCHANGED <<longitude, latitude, altitude, trailPoints, mapSource,
                             droneTrails, mapLayers, deckLayers>>]_vars

\* a maneuver toward the position the vehicle had reached has ended at its
\* first tick, by zero distance, with its callback called
C20_Witness ==
    \E id \in DOMAIN log :
        /\ log[id].state = "zero"
        /\ log[id].ticks = 1
        /\ log[id].completions = 1
        /\ id \notin timers
        /\ Len(Store) > 0

-----------------------------------------------------------------------------
(* Properties of the first append, of the render notification and of the    *)
(* rejected append                                                           *)

\* an exported addTrailPoint can store: the point-mode trail always, the
\* segment-mode trails once initTrail(map) was called
CanStore == trailVariant = "points" \/ mapInstance

\* C21 (as claimed): the exported addTrailPoint on an empty trail stores one
\* entry, which records the appended position with the altitude passed (0 when
\* none was passed), and no endpoint of the stored entry is a position other
\* than the appended one.
C21_FirstAppendStoresInput ==
    [][(AddTrailPoint /\ Len(Store) = 0 /\ CanStore) =>
          LET input    == lastOp'.from
              position == <<input[1], input[2]>>
              entry    == Store'[1]
          IN  /\ Len(Store') = 1
              /\ <<Recorded(entry)[1], Recorded(entry)[2]>> = position
              /\ IF input[3] # Null THEN Recorded(entry)[3] = input[3]
                 ELSE Len(Recorded(entry)) = 2 \/ Recorded(entry)[3] = 0
              /\ trailVariant # "points" =>
                    <<entry.source[1], entry.source[2]>> = position]_vars

\* the payload a render notification carries for a store: the point-mode trail
\* hands its points with a missing altitude set to 0, the segment-mode trails
\* hand their segments
Payload(store) ==
    IF trailVariant = "points"
    THEN [i \in 1..Len(store) |->
            IF Len(store[i]) = 2 THEN <<store[i][1], store[i][2], 0>> ELSE store[i]]
    ELSE store

RejectedPoint(coordinates) ==
    /\ Len(Store) > 0
    /\ IF trailVariant = "points"
       THEN calculateDistanceSq(Newest, coordinates) <= MinDistance * MinDistance
       ELSE calculateDistanceSq(Newest, coordinates) < MinDistance * MinDistance

\* C29: an append the distance filter rejects does not throw and leaves the
\* stores and what the render surface holds as they were.
C29_RejectedAppendIsNoOp ==
    [][(\/ AddTrailPoint /\ RejectedPoint(lastOp'.from)
        \/ AddPathSegment /\ calculateDistanceSq(lastOp'.from, lastOp'.to)
                                < MinDistance * MinDistance) =>
          /\ ~threw'
          /\ UNCHANGED <<trailPoints, droneTrails, mapSource, mapLayers, deckLayers>>]_vars

\* a position off the newest stored one, but within the minimum distance of
\* it, was appended to a trail the render surface draws, and is not stored
C29_Witness ==
    /\ lastOp.op = "addTrailPoint"
    /\ Len(Store) > 1
    /\ Len(Rendered) = Len(Store)
    /\ <<lastOp.from[1], lastOp.from[2]>> # Newest
    /\ calculateDistanceSq(Newest, lastOp.from) < MinDistance * MinDistance

-----------------------------------------------------------------------------
(* Properties of the statistics *)

\* the sum of f over the elements of s
RECURSIVE SumOver(_, _, _)
SumOver(s, f(_), n) == IF n = 0 THEN 0 ELSE SumOver(s, f, n - 1) + f(s[n])

\* C24: getStats returns the number of stored segments, the sum of their
\* source-to-dest distances and the mean of their velocities; on an empty
\* trail the distance and the mean are 0.
C24_StatsOfStore ==
    lastOp.op = "getStats" =>
        LET stats == lastOp.from
            length(segment) == Sqrt(calculateDistanceSq(segment.source, segment.dest))
            speed(segment) == segment.velocity
        IN  /\ stats[1] = Len(Segments)
            /\ stats[2] = SumOver(Segments, length, Len(Segments))
            /\ IF Len(Segments) = 0 THEN stats[2] = 0 /\ stats[3] = 0
               ELSE stats[3] * Len(Segments) = SumOver(Segments, speed, Len(Segments))

\* getStats was called on a trail of two segments of 0.000009009 degrees
\* each, stored with different velocities
C24_Witness ==
    /\ lastOp.op = "getStats"
    /\ lastOp.from[1] = 2
    /\ lastOp.from[2] = 2000
    /\ Segments[1].velocity # Segments[2].velocity
    /\ lastOp.from[3] > Segments[1].velocity
    /\ lastOp.from[3] < Segments[2].velocity

-----------------------------------------------------------------------------
(* Properties of the altitude glide, of the loop handle and of the heading *)

\* C26 (as claimed): the altitude glide of a maneuver never moves the altitude
\* past targetAlt: it stays on the side of targetAlt on which the maneuver
\* found it.
C26_GlideNeverPassesTarget ==
    \A id \in DOMAIN log :
        (move_interval = id /\ Uninterrupted(id)) =>
            /\ log[id].alt0 <= loops[id].targetAlt => altitude <= loops[id].targetAlt
            /\ log[id].alt0 >= loops[id].targetAlt => altitude >= loops[id].targetAlt

\* C27 (as claimed): the drone holds a loop handle exactly while a loop is
\* scheduled, so none after arrival, after a zero-distance end or after
\* stopMovement.
C27_HandleOnlyWhileMoving ==
    move_interval # NoTimer <=> move_interval \in timers

\* C30: a moveDroneToward call on a drone whose model is loaded sets the
\* model's rotation to the heading from the position at the call toward the
\* target, and no tick changes the rotation.
C30_HeadingSetAtCallOnly ==
    [][/\ \A m \in Maneuvers :
            (MoveDroneToward(m.target, m.targetAlt, m.stepMeters, m.onComplete)
                /\ rtcGroup) =>
                rotation_y' = <<m.target[1] - longitude, m.target[2] - latitude>>
       /\ \A id \in timers : Tick(id) => rotation_y' = rotation_y]_vars

\* a second maneuver, back to the start, turned the loaded model round from
\* the heading of the first, and the drone has moved under it since
C30_Witness ==
    /\ rtcGroup
    /\ move_interval \in DOMAIN log
    /\ log[move_interval].ticks > 0
    /\ loops[move_interval].target = <<0, 0>>
    /\ rotation_y = <<0 - 2000, 0>>
    /\ \E id \in DOMAIN log : log[id].state = "superseded" /\ log[id].ticks > 0

-----------------------------------------------------------------------------
(* Properties of the flights *)

\* the store holds the most recently accepted entries, whole and in order
Consistent ==
    Store = SubSeq(History, Max(1, Len(History) - Cap + 1), Len(History))

\* a tick of maneuver id has thrown
HasThrown(id) == IF id \in DOMAIN log THEN log[id].throws > 0 ELSE FALSE

\* maneuver id, in which a tick has thrown, has ended by arrival or was
\* superseded, and its loop is no longer scheduled
EndedAfterThrow(id) ==
    IF id \in DOMAIN log
    THEN log[id].state \in {"arrived", "superseded"} /\ id \notin timers
    ELSE FALSE

\* C22: a tick whose render notification throws leaves its loop scheduled and
\* the store holding the accepted entries, the new one included, and a
\* maneuver in which ticks have thrown still ends by arrival unless another
\* maneuver supersedes it.
C22_RenderFailureIsSurvived ==
    /\ [][\A id \in timers, taken \in BOOLEAN :
             TickRenderThrows(id, taken) =>
                /\ id \in timers'
                /\ Len(History') = Len(History) + 1
                /\ Consistent']_vars
    /\ \A id \in 1..MaxManeuvers :
          HasThrown(id) ~> EndedAfterThrow(id)

\* a maneuver of two steps has ended by arrival at its fourth tick: its first
\* tick threw, and so did the tick that would have been its last; the trail
\* holds the positions of the two
C22_Witness ==
    \E id \in DOMAIN log :
        /\ log[id].state = "arrived"
        /\ id \notin timers
        /\ log[id].throws = 2
        /\ log[id].ticks = 4
        /\ Len(Store) = 2
        /\ Consistent

\* C23 (as claimed): flyToPosition starts a maneuver toward [longitude,
\* latitude] with the step 2 m, whose target altitude is the altitude passed
\* when one is passed, 0 included, and the drone's altitude when none is.
C23_FlyTargetAltitude ==
    [][\A f \in Flights :
          FlyToPosition(f[1], f[2], f[3]) =>
              LET started == loops'[move_interval']
              IN  /\ started.target = <<f[1], f[2]>>
                  /\ started.stepMeters = 2 * UnitsPerMeter
                  /\ started.targetAlt = IF f[3] = Null THEN altitude ELSE f[3]]_vars

\* a tick of loop id that moves the vehicle
MovingTick(id) == Tick(id) /\ <<longitude', latitude'>> # <<longitude, latitude>>

\* C25 (as claimed): what a tick that moves the vehicle appends to the trail
\* is the longitude, latitude and altitude from before the move, and after
\* the tick the trail's newest point is not the vehicle's new position.
C25_TrailBehindVehicle ==
    [][\A id \in timers :
          MovingTick(id) =>
              /\ History' # History =>
                    Recorded(Last(History')) = <<longitude, latitude, altitude>>
              /\ Len(Store') > 0 => Newest' # <<longitude', latitude'>>]_vars

\* C25 (amended): what a tick that moves the vehicle appends to the trail is
\* the longitude, latitude and altitude from before the move; after the tick
\* the trail's newest point is the vehicle's new position only if the trail
\* rejected the tick's position and the step is no longer than the trail's
\* minimum distance.
C25_TrailBehindUnlessShortStep ==
    [][\A id \in timers :
          MovingTick(id) =>
              /\ History' # History =>
                    Recorded(Last(History')) = <<longitude, latitude, altitude>>
              /\ (Len(Store') > 0 /\ Newest' = <<longitude', latitude'>>) =>
                    /\ History' = History
                    /\ loops[id].stepMeters <= MinDistance]_vars

\* after a tick of a 2 m step the trail's newest point is the position the
\* vehicle had before that tick, one step behind
C25_Witness ==
    /\ move_interval \in DOMAIN log
    /\ log[move_interval].ticks > 1
    /\ log[move_interval].throws = 0
    /\ loops[move_interval].stepMeters = stepDist
    /\ Len(Store) > 1
    /\ Newest[1] = longitude - stepDist
    /\ Newest[2] = latitude

-----------------------------------------------------------------------------
(* Properties of the render updates of the registry *)

-----------------------------------------------------------------------------
(* Properties of cancellation *)

\* C32: stopMovement leaves no loop scheduled and no handle held, does not
\* throw and changes neither longitude, latitude, altitude nor the trail; a
\* maneuver it stopped runs no tick and calls no callback afterwards, and
\* until the next moveDroneToward call the position, the altitude and the
\* trail stay as they were; a call that finds no loop scheduled changes
\* nothing but a handle left over from a finished maneuver, and a call that
\* follows a stopMovement changes nothing at all.
C32_StopMovementCancels ==
    [][/\ StopMovement =>
            /\ timers' = {}
            /\ move_interval' = NoTimer
            /\ ~threw'
            /\ UNCHANGED <<longitude, latitude, altitude, trailVars>>
            /\ \A id \in DOMAIN log :
                  /\ log'[id].ticks = log[id].ticks
                  /\ log'[id].completions = log[id].completions
            /\ timers = {} =>
                  UNCHANGED <<longitude, latitude, altitude, vertical_speed,
                              move_frequency, rtcGroup, rtcPosition, rotation_y,
                              loopVars, targetMarker, trailVars, callerVars, histVars>>
            /\ move_interval = NoTimer => UNCHANGED vars
       /\ \A id \in DOMAIN log :
            log[id].state = "stopped" =>
                /\ id \notin timers'
                /\ log'[id] = log[id]
       /\ (move_interval = NoTimer /\ move_interval' = NoTimer) =>
            UNCHANGED <<longitude, latitude, altitude, trailPoints, droneTrails>>]_vars

\* a maneuver with a callback was stopped after its first tick, half way, and
\* the vehicle and the trail are where this tick left them
C32_Witness ==
    \E id \in DOMAIN log :
        /\ log[id].state = "stopped"
        /\ loops[id] = Outbound
        /\ log[id].ticks = 1
        /\ log[id].completions = 0
        /\ move_interval = NoTimer
        /\ timers = {}
        /\ longitude = 2000
        /\ Len(Store) = 1

-----------------------------------------------------------------------------
(* Properties of malformed targets *)

\* C33 (as claimed): moveDroneToward rejects a target with a coordinate that
\* is not a finite number: longitude, latitude and altitude are always finite
\* and no loop is scheduled toward such a target, which no tick can reach.
C33_NonFiniteTargetRejected ==
    /\ NaN \notin {longitude, latitude, altitude}
    /\ \A id \in timers : NaN \notin {loops[id].target[1], loops[id].target[2]}

\* a maneuver was superseded while it was in flight
Superseded(id) == IF id \in DOMAIN log THEN log[id].state = "superseded" ELSE FALSE

\* C34: a moveDroneToward call that supersedes a maneuver in flight leaves its
\* own loop as the only one scheduled; the superseded maneuver has not called
\* its callback and never does, nor does it tick again; and every tick that
\* follows is a tick of the latest call: it moves the vehicle by that call's
\* step toward that call's target and glides toward that call's target
\* altitude.
C34_SupersededManeuverIsSilent ==
    [][/\ \A m \in CancelManeuvers :
            (MoveDroneToward(m.target, m.targetAlt, m.stepMeters, m.onComplete)
                /\ timers # {}) =>
                /\ timers' = {move_interval'}
                /\ loops'[move_interval'] = m
                /\ \A old \in timers : Superseded(old)'
       /\ \A old \in DOMAIN log :
            Superseded(old) =>
                /\ log[old].completions = 0
                /\ log'[old] = log[old]
       /\ \A id \in timers :
            (Tick(id) /\ \E old \in DOMAIN log : Superseded(old)) =>
                LET latest == loops[move_interval]
                    dist   == Abs(latest.target[1] - longitude)
                IN  /\ id = move_interval
                    /\ latitude = latest.target[2] /\ latitude' = latitude
                    /\ dist # 0 =>
                          /\ Abs(longitude' - longitude) = latest.stepMeters
                          /\ Abs(latest.target[1] - longitude')
                                = Abs(dist - latest.stepMeters)
                          /\ altitude' = GlideAltitude(altitude, latest.targetAlt,
                                                       vertical_speed, move_frequency)]_vars

\* the outbound maneuver was superseded after its first tick by the inbound
\* one, which has brought the vehicle back in two steps of 1 m and down to its
\* own target altitude, and has called its callback
C34_Witness ==
    /\ move_interval \in DOMAIN log
    /\ loops[move_interval] = Inbound
    /\ log[move_interval].state = "arrived"
    /\ log[move_interval].ticks = 2
    /\ log[move_interval].completions = 1
    /\ longitude = 0
    /\ altitude = Inbound.targetAlt
    /\ \E old \in DOMAIN log :
          /\ Superseded(old)
          /\ loops[old] = Outbound
          /\ log[old].ticks = 1
          /\ log[old].completions = 0

\* no maneuver is active: none was started, or each one started has arrived,
\* has ended at distance zero, was stopped or was superseded by one that has
Idle == \A id \in DOMAIN log : log[id].state # "moving"

\* C35: while no maneuver is active no loop is scheduled and no tick runs:
\* no step changes the count of ticks or of callbacks of a maneuver, the
\* longitude, the latitude, the altitude or the stored trail.
C35_NoTickWhileIdle ==
    [][Idle =>
          /\ timers = {}
          /\ \A id \in DOMAIN log :
                /\ log'[id].ticks = log[id].ticks
                /\ log'[id].completions = log[id].completions
          /\ UNCHANGED <<longitude, latitude, altitude, trailPoints, droneTrails>>]_vars

\* a maneuver has arrived at its second tick, the next one toward the same
\* target has ended at its first tick at distance zero, and the vehicle rests
\* where the first one left it
C35_Witness ==
    /\ Idle
    /\ timers = {}
    /\ \E first, second \in DOMAIN log :
          /\ log[first].state = "arrived" /\ log[first].ticks = 2
          /\ log[second].state = "zero" /\ log[second].ticks = 1
          /\ loops[second] = Outbound
    /\ longitude = Outbound.target[1]
    /\ Len(Store) = 2

\* C36: a tick that finds the vehicle at a horizontal distance of its target
\* that is not zero ends the loop if and only if that distance is at most
\* stepMeters, whatever the altitude and the target altitude; and once a
\* maneuver has arrived the altitude stays as the arrival tick left it until
\* another maneuver is started.
C36_ArrivalIgnoresAltitude ==
    [][/\ \A id \in timers :
            LET c    == loops[id]
                dist == Abs(c.target[1] - longitude)
            IN  (Tick(id) /\ latitude = c.target[2] /\ dist # 0) =>
                    /\ id \in timers' <=> dist > c.stepMeters
                    /\ id \notin timers' =>
                          /\ log'[id].state = "arrived"
                          /\ altitude' = GlideAltitude(altitude, c.targetAlt,
                                                       vertical_speed, move_frequency)
       /\ \A id \in DOMAIN log :
            (/\ log[id].state = "arrived"
             /\ id + 1 = nextTimer
             /\ nextTimer' = nextTimer) => altitude' = altitude]_vars

\* a maneuver that was to climb 5 m has arrived at its second tick, 1 m below
\* its target altitude
C36_Witness ==
    \E id \in DOMAIN log :
        /\ log[id].state = "arrived"
        /\ move_interval = id
        /\ loops[id] = Outbound
        /\ log[id].ticks = 2
        /\ log[id].alt0 = DefaultAltitude
        /\ longitude = Outbound.target[1]
        /\ altitude = Outbound.targetAlt - 10

-----------------------------------------------------------------------------
(* Properties of the path of segments *)

\* C37: in a segment-mode trail fed through addTrailPoint only, every stored
\* segment but the oldest starts, by value, where the segment stored before it
\* ends.
C37_SegmentsConnected ==
    \A i \in 1..(Len(Segments) - 1) : Segments[i + 1].source = Segments[i].dest

\* the trail was cleared or is new, has since accepted more segments than it
\* holds, so that the oldest was evicted, and has just rejected a position
\* off its newest one
C37_Witness ==
    /\ trailVariant # "points"
    /\ Len(History) = MaxPathSegments + 1
    /\ Len(Segments) = MaxPathSegments
    /\ Segments[1] = History[2]
    /\ lastOp.op = "addTrailPoint"
    /\ <<lastOp.from[1], lastOp.from[2]>> # Newest
    /\ Last(Segments).dest # <<lastOp.from[1], lastOp.from[2], lastOp.from[3]>>

\* C38: every segment the stepper has recorded is stored with velocity 0 and
\* the colour green, whatever the step of the maneuver that recorded it.
C38_StepperSegmentsGreen ==
    \A id \in DOMAIN droneTrails :
        \A i \in 1..Len(droneTrails[id]) :
            /\ droneTrails[id][i].velocity = 0
            /\ droneTrails[id][i].color = <<0, 255, 0>>

\* the trail holds a segment of 2 m recorded by a tick of the inbound maneuver
\* after a step of the outbound one, and a segment of 1 m recorded after a step
\* of the inbound one, at different altitudes
C38_Witness ==
    /\ Len(Segments) = 3
    /\ Segments[2].dest[1] - Segments[2].source[1] = Outbound.stepMeters
    /\ Segments[3].dest[1] - Segments[3].source[1] = 0 - Inbound.stepMeters
    /\ Segments[3].dest[3] # Segments[2].dest[3]
    /\ \E id \in DOMAIN log : log[id].state = "arrived" /\ loops[id] = Inbound

-----------------------------------------------------------------------------
(* Properties of the removal of a trail *)

\* C39: in the layer-per-trail variant, removeTrail(id) on a registered id
\* during which map.removeLayer throws does not throw, leaves the trail with
\* no segments and the registry with no entry for id, and leaves every other
\* trail registered with the segments it had.
C39_RemoveSurvivesLayerFailure ==
    run.op = "removeTrailThrows" =>
        LET id == run.arg[1]
        IN  /\ ~threw
            /\ lastOp.n = 0
            /\ id \notin DOMAIN After.trails
            /\ \A other \in DOMAIN Before.trails \ {id} :
                  /\ other \in DOMAIN After.trails
                  /\ After.trails[other] = Before.trails[other]

\* the trail of the default drone, which held a segment the map drew, was
\* removed while removeLayer threw and left the layer on the map; the other
\* drone's trail still holds its segment
C39_Witness ==
    /\ run.op = "removeTrailThrows"
    /\ run.arg[1] = DefaultDroneId
    /\ Len(Before.trails[DefaultDroneId]) > 0
    /\ DefaultDroneId \in DOMAIN After.layers
    /\ Len(After.layers[DefaultDroneId].data) > 0
    /\ OtherDroneId \in DOMAIN droneTrails
    /\ Len(droneTrails[OtherDroneId]) > 0

=============================================================================
